---- MODULE Spec2Model ----
(***************************************************************************)
(* Model of the model-lifecycle core of price_dashboard_ml:                *)
(*   utils/database.py       DatabaseManager  (price store)                *)
(*   utils/model_registry.py ModelRegistry    (model versions)             *)
(*   utils/model_monitor.py  ModelMonitor     (predictions, health)        *)
(*   utils/ml_models.py      get_lstm_predictor (predictor cache)          *)
(*                                                                         *)
(* Time.  Price-store timestamps and prediction target dates are counted   *)
(* in ticks of 30 seconds, all written in one ISO format, so that SQLite's *)
(* text comparison of the timestamp column agrees with the order of the    *)
(* integers.  Prediction creation times (prediction_timestamp) and the     *)
(* monitor's clock are counted in days.  The registry's created_at is a    *)
(* reading of a clock that advances between two calls.                     *)
(***************************************************************************)
EXTENDS Integers, Sequences, FiniteSets

VARIABLES
    price_history,        \* table price_history: set of rows
    model_registry,       \* table model_registry: rows in insertion order
    register_log,         \* the register_model calls made so far: <<coin_id, outcome>>
    clock,                \* datetime.now() as read by the registry
    predictions,          \* table predictions: rows in id order
    performance_metrics,  \* table performance_metrics: set of rows
    today,                \* the monitor's current date, in days
    model_cache,          \* _model_cache: coin_id -> LSTMPredictor object
    model_files,          \* models/lstm_<coin>_<time>.h5 on disk
    objects,              \* the LSTMPredictor objects constructed so far
    ml_log,               \* the load_model and train_model runs so far
    metadata_files,       \* models/: the metadata JSON files
    predictor,            \* one LSTMPredictor object a caller holds
    threads,              \* the requests in progress, one per session thread
    ret                   \* the last call: [op, arg, val]

vars == <<price_history, model_registry, register_log, clock, predictions,
          performance_metrics, today, model_cache, model_files, objects,
          ml_log, metadata_files, predictor, threads, ret>>

storeVars    == <<price_history>>
registryVars == <<model_registry, register_log, clock>>
monitorVars  == <<predictions, performance_metrics, today>>
mlVars       == <<model_cache, model_files, objects, ml_log>>
predictorVars == <<metadata_files, predictor>>

(***************************************************************************)
(* Bounds and input sets                                                   *)
(***************************************************************************)
Coins == {"btc", "eth"}

\* the largest price-store timestamp tried, in ticks
MaxTs == 3
\* the largest number of rows the price store is filled with
MaxRows == 2

Minute == 2
Hour == 120

Timestamps == 0..MaxTs

\* prices offered to the store: 0 is rejected by validation
PriceInputs == {0, 100}

\* SQL NULL in a REAL column: a value no price takes
NULL == -1

NoCall == [op |-> "none", arg |-> <<>>, val |-> <<>>]

(***************************************************************************)
(* Price store: utils/database.py                                          *)
(***************************************************************************)

\* The dict passed to insert_price_data is a record: keys are the fields the
\* dict carries, price_type and timestamp_type the Python types of the two
\* values ("number": float() accepts it; "iso": a str fromisoformat accepts).
\* A price that is no number is written NULL, a timestamp that is no ISO
\* string 0.

ValidatePriceData_AnyPrice(price_data) ==
    /\ "timestamp" \in price_data.keys
    /\ "price" \in price_data.keys
    /\ price_data.timestamp_type = "iso"

\* _validate_price_data: both fields present; float(price) raises neither
\* ValueError nor TypeError and is > 0; the timestamp is a str that
\* fromisoformat parses
ValidatePriceData(price_data) ==
    /\ "timestamp" \in price_data.keys
    /\ "price" \in price_data.keys
    /\ price_data.price_type = "number"
    /\ price_data.price > 0
    /\ price_data.timestamp_type = "iso"

\* the duplicate check of insert_price_data:
\*   SELECT id FROM price_history
\*   WHERE coin_id = ? AND timestamp >= ts AND timestamp < ts + 1 minute
ExistingRows(store, coin_id, ts) ==
    {r \in store :
        /\ r.coin_id = coin_id
        /\ r.timestamp >= ts
        /\ r.timestamp < ts + Minute}

PriceRow(coin_id, price_data) ==
    [coin_id |-> coin_id, timestamp |-> price_data.timestamp,
     price |-> price_data.price, source |-> price_data.source]

\* get_connection: a sqlite3.Error of the connection or of a statement run
\* inside the with block is raised on as DatabaseError
GetConnection(sqlite_error) == IF sqlite_error THEN "DatabaseError" ELSE ""

\* the value insert_price_data returns.  The whole body is inside
\* try / except Exception: return False, the DatabaseError of get_connection
\* included
InsertResult(store, coin_id, price_data, sqlite_error) ==
    IF ~ValidatePriceData(price_data) THEN FALSE
    ELSE IF GetConnection(sqlite_error) # "" THEN FALSE
    ELSE IF ExistingRows(store, coin_id, price_data.timestamp) # {} THEN FALSE
    ELSE TRUE

\* the exception insert_price_data lets through to its caller: none
InsertRaised(store, coin_id, price_data, sqlite_error) == ""

\* the table after insert_price_data
StoreAfterInsert(store, coin_id, price_data, sqlite_error) ==
    IF InsertResult(store, coin_id, price_data, sqlite_error)
    THEN store \cup {PriceRow(coin_id, price_data)}
    ELSE store

insert_price_data(coin_id, price_data, sqlite_error) ==
    /\ InsertResult(price_history, coin_id, price_data, sqlite_error)
          => Cardinality(price_history) < MaxRows
    /\ price_history' =
          StoreAfterInsert(price_history, coin_id, price_data, sqlite_error)
    /\ ret' = [op |-> "insert_price_data",
               arg |-> <<coin_id, price_data, sqlite_error>>,
               val |-> InsertResult(price_history, coin_id, price_data, sqlite_error),
               raised |-> InsertRaised(price_history, coin_id, price_data, sqlite_error)]
    /\ UNCHANGED <<threads, predictorVars, mlVars, registryVars, monitorVars>>

Day == 24 * Hour

\* the dict get_latest_price and get_historical_prices build of a row
PriceDict(r) == [timestamp |-> r.timestamp, price |-> r.price, source |-> r.source]

RowsOfCoin(store, coin_id) == {r \in store : r.coin_id = coin_id}

GetLatestPrice_Oldest(store, coin_id, sqlite_error) ==
    IF GetConnection(sqlite_error) # "" \/ RowsOfCoin(store, coin_id) = {}
    THEN [keys |-> {}]
    ELSE LET row == CHOOSE r \in RowsOfCoin(store, coin_id) :
                        \A q \in RowsOfCoin(store, coin_id) : q.timestamp >= r.timestamp
         IN  [keys |-> {"row"}, row |-> PriceDict(row)]

\* get_latest_price: ORDER BY timestamp DESC LIMIT 1 among the rows of the
\* coin; None without rows, and None when the except branch is taken
GetLatestPrice(store, coin_id, sqlite_error) ==
    IF GetConnection(sqlite_error) # "" \/ RowsOfCoin(store, coin_id) = {}
    THEN [keys |-> {}]
    ELSE LET row == CHOOSE r \in RowsOfCoin(store, coin_id) :
                        \A q \in RowsOfCoin(store, coin_id) : q.timestamp <= r.timestamp
         IN  [keys |-> {"row"}, row |-> PriceDict(row)]

get_latest_price(coin_id, sqlite_error) ==
    /\ ret' = [op |-> "get_latest_price", arg |-> <<coin_id, sqlite_error>>,
               val |-> GetLatestPrice(price_history, coin_id, sqlite_error),
               raised |-> ""]
    /\ UNCHANGED <<threads, predictorVars, mlVars, storeVars, registryVars, monitorVars>>

\* the rows given, ORDER BY timestamp ASC, as the dicts returned
RECURSIVE OrderByTimestampAsc(_)
OrderByTimestampAsc(rows) ==
    IF rows = {} THEN <<>>
    ELSE LET r == CHOOSE r \in rows : \A q \in rows : r.timestamp <= q.timestamp
         IN  <<PriceDict(r)>> \o OrderByTimestampAsc(rows \ {r})

\* get_historical_prices: WHERE coin_id = ? AND timestamp >= cutoff_date
\* ORDER BY timestamp ASC, with cutoff_date = now - days; [] when the
\* except branch is taken.  now is datetime.now() as the call reads it
GetHistoricalPrices(store, coin_id, days, now, sqlite_error) ==
    LET cutoff_date == now - days * Day
    IN  IF GetConnection(sqlite_error) # "" THEN <<>>
        ELSE OrderByTimestampAsc({r \in RowsOfCoin(store, coin_id) :
                                     r.timestamp >= cutoff_date})

get_historical_prices(coin_id, days, now, sqlite_error) ==
    /\ ret' = [op |-> "get_historical_prices",
               arg |-> <<coin_id, days, now, sqlite_error>>,
               val |-> GetHistoricalPrices(price_history, coin_id, days, now, sqlite_error),
               raised |-> ""]
    /\ UNCHANGED <<threads, predictorVars, mlVars, storeVars, registryVars, monitorVars>>

\* get_price_range: rows of the coin with start_date <= timestamp <= end_date
get_price_range(coin_id, start_date, end_date) ==
    {r \in price_history :
        /\ r.coin_id = coin_id
        /\ r.timestamp >= start_date
        /\ r.timestamp <= end_date}

\* the largest number of days backfilled
MaxDays == 2

FourHours == 4 * Hour

RECURSIVE TimestampsFrom_Exclusive(_, _)
TimestampsFrom_Exclusive(current_time, end_date) ==
    IF current_time < end_date
    THEN <<current_time>> \o TimestampsFrom_Exclusive(current_time + FourHours, end_date)
    ELSE <<>>

\* while current_time <= end_date: append, current_time += 4 hours
RECURSIVE TimestampsFrom(_, _)
TimestampsFrom(current_time, end_date) ==
    IF current_time <= end_date
    THEN <<current_time>> \o TimestampsFrom(current_time + FourHours, end_date)
    ELSE <<>>

\* random.uniform(0.95, 1.05), in percent: the k-th draw of a backfill, for
\* three sequences of draws
Streams == {"low", "high", "mixed"}

VolatilityFactor(stream, k) ==
    CASE stream = "low" -> 95
      [] stream = "high" -> 105
      [] OTHER -> IF k % 2 = 0 THEN 95 ELSE 105

\* the price_data dict backfill builds for one timestamp
SimulatedData(timestamp, current_price, volatility_factor) ==
    [keys |-> {"timestamp", "price", "volume_24h", "market_cap", "source"},
     timestamp |-> timestamp, timestamp_type |-> "iso",
     price |-> (current_price * volatility_factor) \div 100,
     price_type |-> "number", source |-> "pyth_simulated"]

\* the loop over the timestamps of one coin: the store after it and the
\* number of insert_price_data calls that returned True
RECURSIVE InsertSimulated(_, _, _, _, _, _)
InsertSimulated(store, coin_id, timestamps, current_price, stream, inserted_count) ==
    IF timestamps = <<>> THEN [store |-> store, inserted_count |-> inserted_count]
    ELSE LET price_data == SimulatedData(Head(timestamps), current_price,
                               VolatilityFactor(stream, Len(timestamps)))
             after == StoreAfterInsert(store, coin_id, price_data, FALSE)
         IN  IF InsertResult(store, coin_id, price_data, FALSE)
             THEN InsertSimulated(after, coin_id, Tail(timestamps), current_price,
                                  stream, inserted_count + 1)
             ELSE InsertSimulated(after, coin_id, Tail(timestamps), current_price,
                                  stream, inserted_count)

\* results[coin_id] = n
SetItem(results, coin_id, n) ==
    [c \in DOMAIN results \cup {coin_id} |-> IF c = coin_id THEN n ELSE results[c]]

\* the loop of backfill_historical_data over coin_ids.  feed[c] is what
\* pyth_client.get_current_prices([c]) does: answers with a price for c,
\* answers without c, or raises APIError, which the except of the method
\* turns into DatabaseError
RECURSIVE BackfillFrom(_, _, _, _, _, _, _)
BackfillFrom(store, coin_ids, days, end_date, feed, stream, results) ==
    IF coin_ids = <<>>
    THEN [store |-> store, raised |-> "", results |-> results]
    ELSE LET coin_id == Head(coin_ids)
             timestamps == TimestampsFrom(end_date - days * Day, end_date)
             done == InsertSimulated(store, coin_id, timestamps,
                                     feed[coin_id].current_price, stream, 0)
         IN  IF feed[coin_id].status = "APIError"
             THEN [store |-> store, raised |-> "DatabaseError", results |-> results]
             ELSE IF feed[coin_id].status = "absent"
             THEN BackfillFrom(store, Tail(coin_ids), days, end_date, feed, stream,
                               SetItem(results, coin_id, 0))
             ELSE BackfillFrom(done.store, Tail(coin_ids), days, end_date, feed,
                               stream, SetItem(results, coin_id, done.inserted_count))

backfill_historical_data(coin_ids, days, end_date, feed, stream) ==
    LET out == BackfillFrom(price_history, coin_ids, days, end_date, feed, stream,
                            [c \in {} |-> 0])
    IN  /\ Cardinality(price_history) <= MaxRows
        /\ price_history' = out.store
        /\ ret' = [op |-> "backfill_historical_data",
                   arg |-> <<coin_ids, days, end_date, feed>>,
                   val |-> out.results, raised |-> out.raised]
        /\ UNCHANGED <<threads, predictorVars, mlVars, registryVars, monitorVars>>

(***************************************************************************)
(* Model registry: utils/model_registry.py                                 *)
(***************************************************************************)

\* the largest number of register_model calls made
MaxRegs == 3

ModelPaths == {"models/a.h5", "models/b.h5"}

\* f"v{major}.{minor}.{patch}": the version string, as its tokens
FormatVersion(major, minor, patch) == <<"v", major, ".", minor, ".", patch>>

\* result[0].replace('v', '') then map(int, current_version.split('.'))
ParseVersion(version) ==
    LET current_version == SubSeq(version, 2, Len(version))
    IN  <<current_version[1], current_version[3], current_version[5]>>

RowsOf(coin_id) ==
    {i \in DOMAIN model_registry : model_registry[i].coin_id = coin_id}

\* ORDER BY created_at DESC LIMIT 1, among the rows of the coin
LatestRow(coin_id) ==
    CHOOSE i \in RowsOf(coin_id) :
        \A j \in RowsOf(coin_id) :
            model_registry[j].created_at <= model_registry[i].created_at

GetNextVersion_NoBump(coin_id) ==
    IF RowsOf(coin_id) = {} THEN FormatVersion(1, 0, 0)
    ELSE model_registry[LatestRow(coin_id)].version

\* _get_next_version
GetNextVersion(coin_id) ==
    IF RowsOf(coin_id) = {} THEN FormatVersion(1, 0, 0)
    ELSE LET v == ParseVersion(model_registry[LatestRow(coin_id)].version)
         IN  FormatVersion(v[1], v[2], v[3] + 1)

PrimaryKeyConflict_NoKey(version) == FALSE

\* version TEXT PRIMARY KEY: the INSERT of a version the table already
\* holds, for whichever coin, raises sqlite3.IntegrityError
PrimaryKeyConflict(version) ==
    \E i \in DOMAIN model_registry : model_registry[i].version = version

\* register_model: the INSERT and commit, and the value returned; ok is
\* FALSE when the INSERT raised
register_model(coin_id, model_path, mape) ==
    LET version == GetNextVersion(coin_id)
        now     == clock + 1
        ok      == ~PrimaryKeyConflict(version)
        val     == [ok |-> ok, version |-> IF ok THEN version ELSE <<>>]
    IN  /\ Len(register_log) < MaxRegs
        /\ clock' = now
        /\ model_registry' =
              IF ok
              THEN Append(model_registry,
                      [version |-> version, coin_id |-> coin_id,
                       created_at |-> now, mape |-> mape,
                       model_path |-> model_path])
              ELSE model_registry
        /\ ret' = [op |-> "register_model", arg |-> <<coin_id>>, val |-> val]
        /\ register_log' = Append(register_log, [coin_id |-> coin_id, val |-> val])
        /\ UNCHANGED <<threads, predictorVars, mlVars, storeVars, monitorVars>>

\* model_registry.py calls logger.error in its except branches and neither
\* imports logging nor binds the name logger: the call raises NameError
LoggerDefined == FALSE

\* what a registry read returns when its SELECT raises sqlite3.Error and no
\* handler of the registry is around it
SqliteRaised == [raised |-> "sqlite3.Error", keys |-> {}]

\* the rows at the indices given, ORDER BY created_at DESC
RECURSIVE OrderByCreatedDesc(_)
OrderByCreatedDesc(idx) ==
    IF idx = {} THEN <<>>
    ELSE LET i == CHOOSE i \in idx :
                  \A j \in idx :
                      model_registry[j].created_at <= model_registry[i].created_at
         IN  <<model_registry[i]>> \o OrderByCreatedDesc(idx \ {i})

\* get_model_versions: `if coin_id:` filters by the coin, None and '' do not
GetModelVersions(coin_id) ==
    OrderByCreatedDesc(IF coin_id # "" THEN RowsOf(coin_id)
                       ELSE DOMAIN model_registry)

\* get_latest_version: the dict of the newest row of the coin, or None
GetLatestVersion(coin_id) ==
    IF RowsOf(coin_id) = {} THEN [keys |-> {}]
    ELSE [keys |-> {"row"}, row |-> model_registry[LatestRow(coin_id)]]

\* get_model_by_version: the dict of the row WHERE version = ?, or None
GetModelByVersion(version) ==
    IF \A i \in DOMAIN model_registry : model_registry[i].version # version
    THEN [keys |-> {}]
    ELSE [keys |-> {"row"},
          row |-> model_registry[CHOOSE i \in DOMAIN model_registry :
                                    model_registry[i].version = version]]

\* the except branches of rollback_to_version and get_rollback_candidates:
\* logger.error(...) comes before the return of the fallback value
Handled(fallback) ==
    IF LoggerDefined THEN fallback ELSE [raised |-> "NameError", keys |-> {}]

\* the dict rollback_to_version returns, or the exception it raises;
\* sqlite_error: the SELECT of get_model_by_version raised sqlite3.Error
RollbackToVersion(version, sqlite_error) ==
    LET model == GetModelByVersion(version)
    IN  IF sqlite_error
        THEN Handled([raised |-> "", keys |-> {"success", "error"}, success |-> FALSE])
        ELSE IF "row" \notin model.keys
        THEN [raised |-> "", keys |-> {"success", "error"}, success |-> FALSE]
        ELSE [raised |-> "", keys |-> {"success", "model", "message"},
              success |-> TRUE, model |-> model.row]

RegistryAfterRollback_Truncate(version) ==
    LET model == GetModelByVersion(version)
    IN  IF "row" \notin model.keys THEN model_registry
        ELSE SelectSeq(model_registry,
                       LAMBDA r : r.created_at <= model.row.created_at)

\* the table after rollback_to_version: the method only reads ("For now,
\* just return the model info for the application to use")
RegistryAfterRollback(version) == model_registry

rollback_to_version(version, sqlite_error) ==
    /\ ret' = [op |-> "rollback_to_version", arg |-> <<version, sqlite_error>>,
               val |-> RollbackToVersion(version, sqlite_error)]
    /\ model_registry' = RegistryAfterRollback(version)
    /\ UNCHANGED <<threads, predictorVars, mlVars, storeVars, monitorVars, register_log, clock>>

\* get_rollback_candidates: the versions of the coin but the current one
GetRollbackCandidates(coin_id, current_version, sqlite_error) ==
    IF sqlite_error THEN Handled([raised |-> "", keys |-> {"list"}, list |-> <<>>])
    ELSE [raised |-> "", keys |-> {"list"},
          list |-> SelectSeq(GetModelVersions(coin_id),
                             LAMBDA m : m.version # current_version)]

\* the four reading methods: none of them writes
registry_read(method, coin_id, version, sqlite_error) ==
    /\ ret' = [op |-> method, arg |-> <<coin_id, version, sqlite_error>>,
               val |-> CASE method = "get_rollback_candidates" ->
                              GetRollbackCandidates(coin_id, version, sqlite_error)
                         [] sqlite_error -> SqliteRaised
                         [] method = "get_model_versions" ->
                              [raised |-> "", keys |-> {"list"},
                               list |-> GetModelVersions(coin_id)]
                         [] method = "get_latest_version" ->
                              [raised |-> "", keys |-> {"dict"},
                               dict |-> GetLatestVersion(coin_id)]
                         [] OTHER ->
                              [raised |-> "", keys |-> {"dict"},
                               dict |-> GetModelByVersion(version)]]
    /\ UNCHANGED <<threads, predictorVars, mlVars, storeVars, registryVars, monitorVars>>

(***************************************************************************)
(* Model monitor: utils/model_monitor.py                                   *)
(***************************************************************************)

\* the largest number of rows store_prediction appends
MaxPreds == 2

ModelVersions == {FormatVersion(1, 0, 0)}

\* target dates of the predictions stored, in ticks: one within an hour of
\* the price store's later timestamps, one more than an hour after them all
PredictionDates == {Hour + 2, Hour + MaxTs + 2}

Abs(x) == IF x < 0 THEN -x ELSE x

\* The monitor opens its connections with sqlite3.connect(self.db_path) and
\* sets no row_factory, so the rows it fetches are tuples: pred['id'] and
\* p['predicted_price'] raise TypeError, which the method's except catches.
RowsIndexableByName == FALSE

NewPrediction_Filled(model_version, coin_id, prediction_date, predicted_price) ==
    [model_version |-> model_version, coin_id |-> coin_id,
     prediction_date |-> prediction_date, predicted_price |-> predicted_price,
     actual_price |-> predicted_price, prediction_timestamp |-> today]

\* the row store_prediction inserts: actual_price is not among the columns
\* given, prediction_timestamp defaults to CURRENT_TIMESTAMP
NewPrediction(model_version, coin_id, prediction_date, predicted_price) ==
    [model_version |-> model_version, coin_id |-> coin_id,
     prediction_date |-> prediction_date, predicted_price |-> predicted_price,
     actual_price |-> NULL, prediction_timestamp |-> today]

store_prediction(model_version, coin_id, prediction_date, predicted_price) ==
    /\ Len(predictions) < MaxPreds
    /\ predictions' = Append(predictions,
          NewPrediction(model_version, coin_id, prediction_date, predicted_price))
    /\ ret' = [op |-> "store_prediction",
               arg |-> <<coin_id, prediction_date>>, val |-> <<>>]
    /\ UNCHANGED <<threads, predictorVars, mlVars, storeVars, registryVars, performance_metrics, today>>

\* SELECT id, coin_id, prediction_date FROM predictions WHERE actual_price IS NULL
Unset == {i \in DOMAIN predictions : predictions[i].actual_price = NULL}

\* db_manager.get_price_range(coin_id, pred_date - 1 hour, pred_date + 1 hour)
ActualData(coin_id, pred_date) ==
    get_price_range(coin_id, pred_date - Hour, pred_date + Hour)

\* the loop over actual_data, which is in ascending timestamp order: the
\* first row with the strictly smallest time_diff
ClosestPrice(coin_id, pred_date) ==
    LET actual_data == ActualData(coin_id, pred_date)
        time_diff(r) == Abs(r.timestamp - pred_date)
        closest == CHOOSE r \in actual_data :
            \A q \in actual_data :
                \/ time_diff(r) < time_diff(q)
                \/ time_diff(r) = time_diff(q) /\ r.timestamp <= q.timestamp
    IN  closest.price

\* the predictions table after update_actual_prices: with rows to update the
\* first pred['id'] raises, the except logs it and nothing is written
UpdatedPredictions ==
    IF Unset = {} THEN predictions
    ELSE IF ~RowsIndexableByName THEN predictions
    ELSE [i \in DOMAIN predictions |->
            IF /\ i \in Unset
               /\ ActualData(predictions[i].coin_id, predictions[i].prediction_date) # {}
               /\ ClosestPrice(predictions[i].coin_id, predictions[i].prediction_date) # 0
            THEN [predictions[i] EXCEPT !.actual_price =
                    ClosestPrice(predictions[i].coin_id, predictions[i].prediction_date)]
            ELSE predictions[i]]

update_actual_prices ==
    /\ predictions' = UpdatedPredictions
    /\ ret' = [op |-> "update_actual_prices", arg |-> <<>>, val |-> <<>>]
    /\ UNCHANGED <<threads, predictorVars, mlVars, storeVars, registryVars, performance_metrics, today>>

StorePrediction ==
    \E v \in ModelVersions, c \in Coins, d \in PredictionDates :
        store_prediction(v, c, d, 110)

(***************************************************************************)
(* Metrics, degradation, retraining and health: utils/model_monitor.py     *)
(*                                                                         *)
(* A Python dict is a record with the set of its keys; a MAPE is the       *)
(* exact fraction num/den of the mean of the per-row percentage errors.    *)
(***************************************************************************)

RecentDays == 7
BaselineDays == 30
MinSamples == 5
DefaultThreshold == 15

\* mape_threshold values passed by callers
Thresholds == {10, 15, 20}

Min(a, b) == IF a < b THEN a ELSE b
Max(a, b) == IF a > b THEN a ELSE b

ZeroMape == [num |-> 0, den |-> 1]

\* dict.get(key, default)
Get(d, key, default) == IF key \in d.keys THEN d[key] ELSE default

\* the SELECT of calculate_metrics.  prediction_timestamp is SQLite's
\* CURRENT_TIMESTAMP ('YYYY-MM-DD HH:MM:SS'), cutoff_date.isoformat() is
\* 'YYYY-MM-DDTHH:MM:SS.ffffff': compared as text, a row made on the cutoff's
\* own date sorts before the cutoff (' ' < 'T'), a row of a later date after
MetricRows(preds, model_version, coin_id, days) ==
    {i \in DOMAIN preds :
        /\ preds[i].model_version = model_version
        /\ preds[i].coin_id = coin_id
        /\ preds[i].prediction_timestamp > today - days
        /\ preds[i].actual_price # NULL}

\* abs((actual - predicted) / actual) * 100 of one row; the prices modelled
\* make the quotient exact
PercentageError(row) ==
    (Abs(row.actual_price - row.predicted_price) * 100) \div row.actual_price

RECURSIVE SumErrors(_, _)
SumErrors(preds, rows) ==
    IF rows = {} THEN 0
    ELSE LET i == CHOOSE i \in rows : TRUE
         IN  PercentageError(preds[i]) + SumErrors(preds, rows \ {i})

\* np.mean(np.abs((actual - predicted) / actual)) * 100
MapeOf(preds, rows) == [num |-> SumErrors(preds, rows), den |-> Cardinality(rows)]

\* the dict calculate_metrics returns: {'sample_size': 0} without rows;
\* with rows, p['predicted_price'] raises on the tuple and the except
\* returns {}
CalculateMetrics(preds, model_version, coin_id, days) ==
    LET rows == MetricRows(preds, model_version, coin_id, days)
    IN  IF rows = {}
        THEN [keys |-> {"sample_size"}, sample_size |-> 0, mape |-> ZeroMape]
        ELSE IF ~RowsIndexableByName
        THEN [keys |-> {}, sample_size |-> 0, mape |-> ZeroMape]
        ELSE [keys |-> {"rmse", "mae", "mape", "sample_size", "mse"},
              sample_size |-> Cardinality(rows), mape |-> MapeOf(preds, rows)]

MetricsStored_Always(pm, preds, model_version, coin_id, days) ==
    {r \in pm : ~(/\ r.model_version = model_version
                  /\ r.coin_id = coin_id
                  /\ r.metric_date = today
                  /\ r.period_days = days)}
    \cup {[model_version |-> model_version, coin_id |-> coin_id,
           metric_date |-> today, period_days |-> days,
           mape |-> ZeroMape, sample_size |-> 0]}

\* INSERT OR REPLACE INTO performance_metrics, reached when the metrics
\* were computed: the row of the key (version, coin, today, days) is replaced
MetricsStored(pm, preds, model_version, coin_id, days) ==
    LET m == CalculateMetrics(preds, model_version, coin_id, days)
    IN  IF "mape" \notin m.keys THEN pm
        ELSE {r \in pm : ~(/\ r.model_version = model_version
                           /\ r.coin_id = coin_id
                           /\ r.metric_date = today
                           /\ r.period_days = days)}
             \cup {[model_version |-> model_version, coin_id |-> coin_id,
                    metric_date |-> today, period_days |-> days,
                    mape |-> m.mape, sample_size |-> m.sample_size]}

\* recent_mape > threshold_mape
MapeAbove(mape, threshold) == mape.num > threshold * mape.den

\* recent_mape / baseline_mape > 1.5
RatioAbove(recent_mape, baseline_mape) ==
    2 * recent_mape.num * baseline_mape.den > 3 * baseline_mape.num * recent_mape.den

\* the dict detect_performance_degradation returns
DetectDegradation(preds, model_version, coin_id, threshold_mape) ==
    LET recent_metrics == CalculateMetrics(preds, model_version, coin_id, RecentDays)
        recent_mape == Get(recent_metrics, "mape", ZeroMape)
        baseline_metrics == CalculateMetrics(preds, model_version, coin_id, BaselineDays)
        baseline_mape == Get(baseline_metrics, "mape", ZeroMape)
    IN  IF Get(recent_metrics, "sample_size", 0) < MinSamples
        THEN [degraded |-> FALSE, reason |-> "Insufficient data"]
        ELSE IF baseline_mape.num = 0
        THEN [degraded |-> FALSE, reason |-> "No baseline available"]
        ELSE [degraded |-> \/ MapeAbove(recent_mape, threshold_mape)
                           \/ RatioAbove(recent_mape, baseline_mape),
              reason |-> ""]

\* performance_metrics after detect_performance_degradation: the 7-day
\* metrics, and the 30-day metrics when the 7-day sample suffices
DetectStored(pm, preds, model_version, coin_id) ==
    LET recent_metrics == CalculateMetrics(preds, model_version, coin_id, RecentDays)
        pm7 == MetricsStored(pm, preds, model_version, coin_id, RecentDays)
    IN  IF Get(recent_metrics, "sample_size", 0) < MinSamples THEN pm7
        ELSE MetricsStored(pm7, preds, model_version, coin_id, BaselineDays)

detect_performance_degradation(model_version, coin_id, threshold_mape) ==
    /\ ret' = [op |-> "detect_performance_degradation",
               arg |-> <<model_version, coin_id, threshold_mape>>,
               val |-> DetectDegradation(predictions, model_version, coin_id, threshold_mape)]
    /\ performance_metrics' =
          DetectStored(performance_metrics, predictions, model_version, coin_id)
    /\ UNCHANGED <<threads, predictorVars, mlVars, storeVars, registryVars, predictions, today>>

\* a should_retrain_model that asks for a retraining whenever the 7-day
\* window has enough reconciled samples
ShouldRetrain_Eager(preds, model_version, coin_id, mape_threshold) ==
    LET rows == MetricRows(preds, model_version, coin_id, RecentDays)
        enough == Cardinality(rows) >= MinSamples
    IN  [should_retrain |-> enough, keys |-> {"should_retrain", "reason"},
         reason |-> IF enough THEN "Performance degradation detected"
                    ELSE "Insufficient recent data for retraining decision",
         current_mape |-> ZeroMape]

\* the dict should_retrain_model returns; the degradation check is called
\* without a threshold and so runs with its default
ShouldRetrain(preds, model_version, coin_id, mape_threshold) ==
    LET recent_metrics == CalculateMetrics(preds, model_version, coin_id, RecentDays)
        recent_mape == Get(recent_metrics, "mape", ZeroMape)
        degradation == DetectDegradation(preds, model_version, coin_id, DefaultThreshold)
    IN  IF Get(recent_metrics, "sample_size", 0) < MinSamples
        THEN [should_retrain |-> FALSE, keys |-> {"should_retrain", "reason"},
              reason |-> "Insufficient recent data for retraining decision",
              current_mape |-> ZeroMape]
        ELSE IF MapeAbove(recent_mape, mape_threshold)
        THEN [should_retrain |-> TRUE,
              keys |-> {"should_retrain", "reason", "current_mape", "threshold"},
              reason |-> "MAPE exceeds threshold", current_mape |-> recent_mape]
        ELSE IF degradation.degraded
        THEN [should_retrain |-> TRUE,
              keys |-> {"should_retrain", "reason", "degradation_info"},
              reason |-> "Performance degradation detected",
              current_mape |-> ZeroMape]
        ELSE [should_retrain |-> FALSE,
              keys |-> {"should_retrain", "reason", "current_mape"},
              reason |-> "Model performing well", current_mape |-> recent_mape]

should_retrain_model(model_version, coin_id, mape_threshold) ==
    /\ ret' = [op |-> "should_retrain_model",
               arg |-> <<model_version, coin_id, mape_threshold>>,
               val |-> ShouldRetrain(predictions, model_version, coin_id, mape_threshold)]
    /\ performance_metrics' =
          LET recent_metrics ==
                  CalculateMetrics(predictions, model_version, coin_id, RecentDays)
              pm7 == MetricsStored(performance_metrics, predictions,
                                   model_version, coin_id, RecentDays)
          IN  IF \/ Get(recent_metrics, "sample_size", 0) < MinSamples
                 \/ MapeAbove(Get(recent_metrics, "mape", ZeroMape), mape_threshold)
              THEN pm7
              ELSE DetectStored(pm7, predictions, model_version, coin_id)
    /\ UNCHANGED <<threads, predictorVars, mlVars, storeVars, registryVars, predictions, today>>

ScoreOf_PenaltyOnly(degraded, recent_mape, sample_size) ==
    LET s1 == IF degraded THEN 0 - 30 ELSE 0
        s2 == IF MapeAbove(recent_mape, 20) THEN s1 - 20
              ELSE IF MapeAbove(recent_mape, 10) THEN s1 - 10 ELSE s1
    IN  IF sample_size < 10 THEN s2 - 15
        ELSE IF sample_size < 5 THEN s2 - 30 ELSE s2

\* the score of get_model_health_score from the degradation flag and the
\* 7-day metrics: the deductions in the order the code tests them, clamped
ScoreOf(degraded, recent_mape, sample_size) ==
    LET s0 == 100
        s1 == IF degraded THEN s0 - 30 ELSE s0
        s2 == IF MapeAbove(recent_mape, 20) THEN s1 - 20
              ELSE IF MapeAbove(recent_mape, 10) THEN s1 - 10 ELSE s1
        s3 == IF sample_size < 10 THEN s2 - 15
              ELSE IF sample_size < 5 THEN s2 - 30 ELSE s2
    IN  Max(0, Min(100, s3))

\* get_model_health_score
HealthScore(preds, model_version, coin_id) ==
    LET degradation == DetectDegradation(preds, model_version, coin_id, DefaultThreshold)
        rolling7 == CalculateMetrics(preds, model_version, coin_id, RecentDays)
    IN  ScoreOf(degradation.degraded,
                Get(rolling7, "mape", ZeroMape),
                Get(rolling7, "sample_size", 0))

get_model_health_score(model_version, coin_id) ==
    /\ ret' = [op |-> "get_model_health_score",
               arg |-> <<model_version, coin_id>>,
               val |-> HealthScore(predictions, model_version, coin_id)]
    /\ performance_metrics' =
          MetricsStored(
              MetricsStored(performance_metrics, predictions,
                            model_version, coin_id, RecentDays),
              predictions, model_version, coin_id, BaselineDays)
    /\ UNCHANGED <<threads, predictorVars, mlVars, storeVars, registryVars, predictions, today>>

\* calculate_metrics called on its own: the dict returned and the snapshot
\* table after it
calculate_metrics(model_version, coin_id, days) ==
    /\ ret' = [op |-> "calculate_metrics",
               arg |-> <<model_version, coin_id, days>>,
               val |-> CalculateMetrics(predictions, model_version, coin_id, days)]
    /\ performance_metrics' =
          MetricsStored(performance_metrics, predictions, model_version, coin_id, days)
    /\ UNCHANGED <<threads, predictorVars, mlVars, storeVars, registryVars, predictions, today>>

\* the windows callers ask metrics for, in days
Windows == {RecentDays, BaselineDays}

CalculateMetricsCall ==
    \E v \in ModelVersions, c \in Coins, days \in Windows :
        calculate_metrics(v, c, days)

DetectDegradationCall ==
    \E v \in ModelVersions, c \in Coins, t \in Thresholds :
        detect_performance_degradation(v, c, t)

ShouldRetrainCall ==
    \E v \in ModelVersions, c \in Coins, t \in Thresholds :
        should_retrain_model(v, c, t)

HealthScoreCall ==
    \E v \in ModelVersions, c \in Coins : get_model_health_score(v, c)

Register ==
    \E c \in Coins, path \in ModelPaths, mape \in {5, 20} :
        register_model(c, path, mape)

(***************************************************************************)
(* LSTMPredictor: utils/ml_models.py                                       *)
(*                                                                         *)
(* The object is a record of its attributes.  The network is not computed: *)
(* what Keras does is given to a call as an outcome: the stage at which    *)
(* train_model raises, whether load_model reads the file, the values the   *)
(* network answers with.  A model file is named by its mtime, which no two *)
(* files share; 0 is None.  Next to its name a model file carries the      *)
(* scaler parameters its weights were fitted with.  Prices are whole       *)
(* numbers and the bounds of the confidence interval are in thousandths.   *)
(***************************************************************************)

\* the largest number of files written to models/
MaxFiles == 3

SequenceLength == 30
ForecastDays == 7
\* load_data(days=90), and the load_data(days=60) of predict_future
LoadDays == 90
ContextDays == 60

\* datetime.now() as get_historical_prices reads it in these calls
NowTick == 100 * Day

NoModel == [state |-> "none", file |-> 0]

\* MinMaxScaler(feature_range=(0, 1)) before fit_transform: no data_min_
Unfitted == [fitted |-> FALSE, data_min |-> 0, data_range |-> 0]

EmptyMetadata == [keys |-> {}, model_path |-> 0, scaler |-> Unfitted]

\* LSTMPredictor.__init__; completed records that a train_model call on
\* the object has returned or a load_model call has returned True
NewPredictor(coin_id) ==
    [coin_id |-> coin_id, model_path |-> 0, model |-> NoModel,
     scaler |-> Unfitted, metadata |-> EmptyMetadata, completed |-> FALSE]

\* get_model_info()['is_trained']
IsTrained(p) == p.model.state # "none"

\* load_data: the rows of the coin of the last days days, oldest first, or
\* ModelError without rows or with fewer than sequence_length +
\* forecast_days of them
LoadData(store, coin_id, days, now) ==
    LET historical_data == GetHistoricalPrices(store, coin_id, days, now, FALSE)
    IN  IF Len(historical_data) = 0
        THEN [raised |-> "ModelError", df |-> <<>>]
        ELSE IF Len(historical_data) < SequenceLength + ForecastDays
        THEN [raised |-> "ModelError", df |-> <<>>]
        ELSE [raised |-> "", df |-> historical_data]

\* self.scaler.fit_transform(prices): the parameters the scaler keeps
FitScaler(df) ==
    LET prices == {df[i].price : i \in DOMAIN df}
        lo == CHOOSE x \in prices : \A y \in prices : x <= y
        hi == CHOOSE x \in prices : \A y \in prices : y <= x
    IN  [fitted |-> TRUE, data_min |-> lo, data_range |-> hi - lo]

\* preprocess_data(df): a new scaler is fitted to the prices of df
PreprocessData(p, df) == [p EXCEPT !.scaler = FitScaler(df)]

\* predictor.preprocess_data(predictor.load_data(days))
preprocess_data(days) ==
    LET loaded == LoadData(price_history, predictor.coin_id, days, NowTick)
    IN  /\ predictor' = IF loaded.raised = ""
                         THEN PreprocessData(predictor, loaded.df)
                         ELSE predictor
        /\ ret' = [op |-> "preprocess_data", arg |-> <<days>>,
                   val |-> loaded.raised = "", raised |-> loaded.raised]
        /\ UNCHANGED <<threads, metadata_files, mlVars, storeVars,
                       registryVars, monitorVars>>

\* the stages at which train_model can raise, and "ok" when it returns
TrainStages == {"build_model", "fit", "predict", "ok"}

\* the object after train_model writing to the checkpoint path k.
\* self.model is assigned the built network before fit is called, so it
\* stays assigned when fit or a later stage raises; model_path is set after
\* fit, metadata after the metrics
TrainModel(p, stage, k) ==
    [p EXCEPT
        !.model = IF stage = "build_model" THEN @
                  ELSE IF stage = "fit" THEN [state |-> "built", file |-> 0]
                  ELSE [state |-> "fitted", file |-> k],
        !.model_path = IF stage \in {"predict", "ok"} THEN k ELSE @,
        !.metadata = IF stage = "ok"
                     THEN [keys |-> {"metrics", "model_path"},
                           model_path |-> k, scaler |-> Unfitted]
                     ELSE @,
        !.completed = @ \/ stage = "ok"]

\* train_model, called with the arrays of preprocess_data.  The
\* ModelCheckpoint callback writes the model file while fit runs
train_model(stage) ==
    LET k == clock + 1
        written == stage \in {"predict", "ok"}
    IN  /\ predictor.scaler.fitted
        /\ written => clock < MaxFiles
        /\ clock' = IF written THEN k ELSE clock
        /\ predictor' = TrainModel(predictor, stage, k)
        /\ model_files' = IF written
                           THEN model_files \cup
                                    {[coin_id |-> predictor.coin_id,
                                      scaler |-> predictor.scaler, mtime |-> k]}
                           ELSE model_files
        /\ ret' = [op |-> "train_model", arg |-> <<stage>>,
                   val |-> stage = "ok",
                   raised |-> IF stage = "ok" THEN "" ELSE "ModelError"]
        /\ UNCHANGED <<threads, metadata_files, model_cache, objects, ml_log,
                       model_registry, register_log, storeVars, monitorVars>>

\* the JSON save_metadata writes: self.metadata, with the parameters of
\* the scaler under 'scaler' when the scaler has data_min_
MetadataJson(p) ==
    [keys |-> p.metadata.keys \cup (IF p.scaler.fitted THEN {"scaler"} ELSE {}),
     model_path |-> p.metadata.model_path, scaler |-> p.scaler]

\* save_metadata(filepath).  name is "matching" for the path
\* model_path.replace('.h5', '_metadata.json') train_lstm_model passes and
\* "default" for models/metadata_{coin_id}_{now}.json, written when no
\* filepath is passed
save_metadata(name) ==
    LET k == clock + 1
        file == [coin_id |-> predictor.coin_id,
                 model |-> IF name = "matching" THEN predictor.model_path ELSE 0,
                 mtime |-> k, name |-> name, content |-> MetadataJson(predictor)]
        overwritten == {m \in metadata_files :
                           /\ name = "matching"
                           /\ m.name = "matching"
                           /\ m.model = predictor.model_path}
    IN  /\ clock < MaxFiles
        /\ clock' = k
        /\ name = "matching" => predictor.model_path # 0
        /\ metadata_files' = (metadata_files \ overwritten) \cup {file}
        /\ ret' = [op |-> "save_metadata", arg |-> <<name>>, val |-> TRUE,
                   raised |-> ""]
        /\ UNCHANGED <<threads, predictor, mlVars, model_registry,
                       register_log, storeVars, monitorVars>>

\* the metadata file load_model reads: the one named after the model file
\* or, when there is none, the newest models/metadata_{coin_id}_*.json
MetadataFor(files, coin_id, model_path) ==
    LET matching == {m \in files : m.name = "matching" /\ m.model = model_path}
        metadata_files_glob ==
            {m \in files : m.name = "default" /\ m.coin_id = coin_id}
    IN  IF matching # {} THEN matching
        ELSE IF metadata_files_glob # {}
        THEN {CHOOSE m \in metadata_files_glob :
                 \A n \in metadata_files_glob : n.mtime <= m.mtime}
        ELSE {}

\* load_model: the object after the call and the value returned.  keras
\* load_model raising leaves the object as it was; json.load raising
\* leaves self.model and self.model_path assigned
LoadModel(p, files, model_path, load_ok, json_ok) ==
    LET found == MetadataFor(files, p.coin_id, model_path)
        loaded == [p EXCEPT !.model = [state |-> "loaded", file |-> model_path],
                            !.model_path = model_path]
    IN  IF ~load_ok THEN [predictor |-> p, val |-> FALSE]
        ELSE IF found = {}
        THEN [predictor |-> [loaded EXCEPT !.completed = TRUE], val |-> TRUE]
        ELSE IF ~json_ok THEN [predictor |-> loaded, val |-> FALSE]
        ELSE LET content == (CHOOSE m \in found : TRUE).content
             IN  [predictor |->
                     [loaded EXCEPT
                        !.metadata = content,
                        !.scaler = IF "scaler" \in content.keys /\ content.scaler.fitted
                                   THEN content.scaler ELSE @,
                        !.completed = TRUE],
                  val |-> TRUE]

load_model(model_path, load_ok, json_ok) ==
    LET done == LoadModel(predictor, metadata_files, model_path, load_ok, json_ok)
    IN  /\ predictor' = done.predictor
        /\ ret' = [op |-> "load_model", arg |-> <<model_path, load_ok, json_ok>>,
                   val |-> done.val, raised |-> ""]
        /\ UNCHANGED <<threads, metadata_files, mlVars, storeVars,
                       registryVars, monitorVars>>

\* the values the network answers with, on the scaled axis: the ends of
\* the range the scaler was fitted to, and a value beyond it
NetOutputs == {0, 1, 2}

\* scaler.inverse_transform: (x - min_) / scale_, where scale_ is 1 when all
\* the prices fitted were equal
InverseTransform(scaler, x) ==
    scaler.data_min + x * (IF scaler.data_range = 0 THEN 1 ELSE scaler.data_range)

RECURSIVE SumOver(_, _)
SumOver(f, n) == IF n = 0 THEN 0 ELSE f[n] + SumOver(f, n - 1)

\* the largest square root taken
MaxRoot == 200

\* the largest r with r * r <= n
ISqrt(n) == CHOOSE r \in 0..MaxRoot : r * r <= n /\ n < (r + 1) * (r + 1)

\* 1.96 * (np.std(predictions_unscaled) * 0.1), in thousandths, rounded down
IntervalHalfWidth(unscaled) ==
    LET n == Len(unscaled)
        squares == [i \in 1..n |-> unscaled[i] * unscaled[i]]
        spread == n * SumOver(squares, n) - SumOver(unscaled, n) * SumOver(unscaled, n)
    IN  (196 * ISqrt(spread)) \div n

FutureDates_FromLast(last_date, days_ahead) ==
    [i \in 1..days_ahead |-> last_date + (i - 1) * Day]

\* [last_date + timedelta(days=i+1) for i in range(days_ahead)]
FutureDates(last_date, days_ahead) ==
    [i \in 1..days_ahead |-> last_date + i * Day]

\* predict_future: the error raised or the dict returned.  outputs[i] is
\* the value the network answers with at step i.  The model error of an
\* object without a model, a ModelError of load_data, the NotFittedError of
\* a scaler never fitted and the ValueError of inverse_transform on no
\* rows are all raised on as ModelError
PredictFuture(p, store, days_ahead, outputs, now) ==
    LET loaded == LoadData(store, p.coin_id, ContextDays, now)
        failed == [predictions |-> <<>>, keys |-> {}, raised |-> "ModelError",
                   days_ahead |-> days_ahead, lower |-> <<>>, upper |-> <<>>,
                   dates |-> <<>>]
    IN  IF p.model.state = "none" THEN failed
        ELSE IF loaded.raised # "" THEN failed
        ELSE IF ~p.scaler.fitted THEN failed
        ELSE IF days_ahead <= 0 THEN failed
        ELSE LET unscaled == [i \in 1..days_ahead |->
                                  InverseTransform(p.scaler, outputs[i])]
                 half == IntervalHalfWidth(unscaled)
                 last_date == loaded.df[Len(loaded.df)].timestamp
             IN  [predictions |-> unscaled,
                  keys |-> {"coin_id", "predictions", "confidence_intervals",
                            "dates", "prediction_date", "days_ahead"},
                  raised |-> "",
                  days_ahead |-> days_ahead,
                  lower |-> [i \in 1..days_ahead |-> 1000 * unscaled[i] - half],
                  upper |-> [i \in 1..days_ahead |-> 1000 * unscaled[i] + half],
                  dates |-> FutureDates(last_date, days_ahead)]

predict_future(days_ahead, outputs) ==
    LET val == PredictFuture(predictor, price_history, days_ahead, outputs, NowTick)
    IN  /\ ret' = [op |-> "predict_future", arg |-> <<days_ahead, outputs>>,
                   val |-> val, raised |-> val.raised]
        /\ UNCHANGED <<threads, predictorVars, mlVars, storeVars,
                       registryVars, monitorVars>>

(***************************************************************************)
(* Predictor cache: utils/ml_models.py                                     *)
(*                                                                         *)
(* An LSTMPredictor object is a record; id tells the objects apart.  What  *)
(* Keras and the data do is given to a call as load_ok (load_model         *)
(* succeeds on the file) and train_ok (load_data, preprocess_data and      *)
(* train_model succeed).                                                   *)
(***************************************************************************)

\* the largest number of LSTMPredictor objects constructed
MaxObjects == 4

CacheHit_Never(cache, coin_id) == FALSE

\* coin_id in _model_cache
CacheHit(cache, coin_id) == coin_id \in DOMAIN cache

\* models_dir.glob(f"lstm_{coin_id}_*.h5")
ModelFilesOf(files, coin_id) == {f \in files : f.coin_id = coin_id}

\* max(model_files, key=lambda x: x.stat().st_mtime)
LatestModel(files, coin_id) ==
    CHOOSE f \in ModelFilesOf(files, coin_id) :
        \A g \in ModelFilesOf(files, coin_id) : g.mtime <= f.mtime

\* a train_lstm_model that returns its predictor even when the training
\* raised
TrainLstmModel_Swallows(files, id, coin_id, force_retrain, load_ok, train_ok, partial) ==
    LET tries_load == ~force_retrain /\ ModelFilesOf(files, coin_id) # {}
        load_run == [coin_id |-> coin_id, ok |-> load_ok, run |-> "load_model"]
        train_run == [coin_id |-> coin_id, ok |-> train_ok, run |-> "train_model"]
        checkpoint == [coin_id |-> coin_id, mtime |-> id]
        loaded == tries_load /\ load_ok
    IN  [predictor |-> [coin_id |-> coin_id,
                        model_path |-> IF loaded THEN LatestModel(files, coin_id)
                                       ELSE checkpoint,
                        id |-> id, is_trained |-> loaded \/ train_ok],
         raised |-> "",
         files |-> IF loaded \/ ~(train_ok \/ partial) THEN files
                   ELSE files \cup {checkpoint},
         runs |-> IF loaded THEN <<load_run>>
                  ELSE (IF tries_load THEN <<load_run>> ELSE <<>>) \o <<train_run>>]

\* what train_lstm_model does: the predictor it returns or the error it
\* raises, the files on disk after it, and its load and training runs.  A
\* model file written by a training that returned stands for the file and
\* the metadata saved next to it; partial tells whether a training that
\* raised had its ModelCheckpoint callback write the file before
TrainLstmModel(files, id, coin_id, force_retrain, load_ok, train_ok, partial) ==
    LET tries_load == ~force_retrain /\ ModelFilesOf(files, coin_id) # {}
        load_run == [coin_id |-> coin_id, ok |-> load_ok, run |-> "load_model"]
        train_run == [coin_id |-> coin_id, ok |-> train_ok, run |-> "train_model"]
        checkpoint == [coin_id |-> coin_id, mtime |-> id]
    IN  IF tries_load /\ load_ok
        THEN [predictor |-> [coin_id |-> coin_id,
                             model_path |-> LatestModel(files, coin_id),
                             id |-> id, is_trained |-> TRUE],
              raised |-> "", files |-> files, runs |-> <<load_run>>]
        ELSE IF train_ok
        THEN [predictor |-> [coin_id |-> coin_id, model_path |-> checkpoint,
                             id |-> id, is_trained |-> TRUE],
              raised |-> "", files |-> files \cup {checkpoint},
              runs |-> (IF tries_load THEN <<load_run>> ELSE <<>>) \o <<train_run>>]
        ELSE [predictor |-> [coin_id |-> coin_id, model_path |-> <<>>,
                             id |-> id, is_trained |-> FALSE],
              raised |-> "ModelError",
              files |-> IF partial THEN files \cup {checkpoint} ELSE files,
              runs |-> (IF tries_load THEN <<load_run>> ELSE <<>>) \o <<train_run>>]

\* get_lstm_predictor: on a miss the result of train_lstm_model(coin_id) is
\* put in the cache; when that call raises, the assignment is not reached
get_lstm_predictor(coin_id, load_ok, train_ok, partial) ==
    LET made == TrainLstmModel(model_files, objects + 1, coin_id, FALSE,
                               load_ok, train_ok, partial)
    IN  IF CacheHit(model_cache, coin_id)
        THEN /\ ret' = [op |-> "get_lstm_predictor",
                        arg |-> <<coin_id, load_ok, train_ok, partial>>,
                        val |-> model_cache[coin_id], raised |-> ""]
             /\ UNCHANGED <<threads, predictorVars, storeVars, registryVars,
                            monitorVars, mlVars>>
        ELSE /\ objects < MaxObjects
             /\ objects' = objects + 1
             /\ model_files' = made.files
             /\ ml_log' = ml_log \o made.runs
             /\ model_cache' = IF made.raised = ""
                                THEN SetItem(model_cache, coin_id, made.predictor)
                                ELSE model_cache
             /\ ret' = [op |-> "get_lstm_predictor",
                        arg |-> <<coin_id, load_ok, train_ok, partial>>,
                        val |-> made.predictor, raised |-> made.raised]
             /\ UNCHANGED <<threads, predictorVars, storeVars, registryVars,
                            monitorVars>>

\* a training that returns has its checkpoint on disk in any case
Outcomes == {<<TRUE, FALSE>>, <<FALSE, FALSE>>, <<FALSE, TRUE>>}

GetLstmPredictor ==
    \E c \in Coins, load_ok \in BOOLEAN, o \in Outcomes :
        get_lstm_predictor(c, load_ok, o[1], o[2])

\* train_lstm_model called by a caller of its own, as a retrain is: the
\* predictor is returned to that caller and _model_cache is not touched
train_lstm_model(coin_id, force_retrain, load_ok, train_ok, partial) ==
    LET made == TrainLstmModel(model_files, objects + 1, coin_id, force_retrain,
                               load_ok, train_ok, partial)
    IN  /\ objects < MaxObjects
        /\ objects' = objects + 1
        /\ model_files' = made.files
        /\ ml_log' = ml_log \o made.runs
        /\ ret' = [op |-> "train_lstm_model",
                   arg |-> <<coin_id, force_retrain, load_ok, train_ok, partial>>,
                   val |-> made.predictor, raised |-> made.raised]
        /\ UNCHANGED <<threads, predictorVars, model_cache, storeVars,
                       registryVars, monitorVars>>

(***************************************************************************)
(* Concurrent requests.  Each Streamlit session runs its script in a       *)
(* thread of the one server process; _model_cache is a module global and   *)
(* the registry is one SQLite file, so two sessions share both.  No lock   *)
(* is taken in ml_models.py or model_registry.py.  A call is cut where     *)
(* another thread can run: register_model between the SELECT of            *)
(* _get_next_version and the INSERT, which use two connections;            *)
(* get_lstm_predictor between the cache test and the end of the training.  *)
(***************************************************************************)
Threads == {1, 2}

Idle == [coin_id |-> "", version |-> <<>>, model_path |-> "", mape |-> 0,
         id |-> 0, pc |-> "idle"]

InFlight(pc) == {t \in Threads : threads[t].pc = pc}

\* register_model up to the return of _get_next_version
register_read(t, coin_id, model_path, mape) ==
    /\ threads[t].pc = "idle"
    /\ Len(register_log) + Cardinality(InFlight("register_insert")) < MaxRegs
    /\ threads' = [threads EXCEPT ![t] =
                      [coin_id |-> coin_id, version |-> GetNextVersion(coin_id),
                       model_path |-> model_path, mape |-> mape,
                       id |-> 0, pc |-> "register_insert"]]
    /\ UNCHANGED <<predictorVars, mlVars, storeVars, registryVars,
                   monitorVars, ret>>

\* register_model from the INSERT on: the version computed before is
\* inserted, whatever the table holds by now
register_insert(t) ==
    LET version == threads[t].version
        now     == clock + 1
        ok      == ~PrimaryKeyConflict(version)
        val     == [version |-> IF ok THEN version ELSE <<>>, ok |-> ok]
    IN  /\ threads[t].pc = "register_insert"
        /\ clock' = now
        /\ model_registry' =
              IF ok
              THEN Append(model_registry,
                      [coin_id |-> threads[t].coin_id, version |-> version,
                       created_at |-> now, model_path |-> threads[t].model_path,
                       mape |-> threads[t].mape])
              ELSE model_registry
        /\ ret' = [op |-> "register_model", arg |-> <<threads[t].coin_id>>,
                   val |-> val]
        /\ register_log' = Append(register_log,
                                  [val |-> val, coin_id |-> threads[t].coin_id])
        /\ threads' = [threads EXCEPT ![t] = Idle]
        /\ UNCHANGED <<predictorVars, mlVars, storeVars, monitorVars>>

\* get_lstm_predictor up to the training: the cache test and, on a miss,
\* the start of train_lstm_model, which loads the latest model file when
\* there is one; a predictor loaded is put in the cache
get_lstm_predictor_begin(t, coin_id, load_ok) ==
    LET made == TrainLstmModel(model_files, objects + 1, coin_id, FALSE,
                               load_ok, FALSE, FALSE)
        loaded == made.raised = ""
        load_runs == SelectSeq(made.runs, LAMBDA r : r.run = "load_model")
    IN  /\ threads[t].pc = "idle"
        /\ IF CacheHit(model_cache, coin_id)
           THEN /\ ret' = [op |-> "get_lstm_predictor",
                           arg |-> <<coin_id, load_ok, FALSE, FALSE>>,
                           val |-> model_cache[coin_id], raised |-> ""]
                /\ UNCHANGED <<threads, mlVars>>
           ELSE /\ objects < MaxObjects
                /\ objects' = objects + 1
                /\ ml_log' = ml_log \o load_runs
                /\ model_files' = model_files
                /\ model_cache' = IF loaded
                                   THEN SetItem(model_cache, coin_id, made.predictor)
                                   ELSE model_cache
                /\ threads' = IF loaded THEN threads
                              ELSE [threads EXCEPT ![t] =
                                      [coin_id |-> coin_id, version |-> <<>>,
                                       model_path |-> "", mape |-> 0,
                                       id |-> objects + 1, pc |-> "training"]]
                /\ ret' = IF loaded
                          THEN [op |-> "get_lstm_predictor",
                                arg |-> <<coin_id, load_ok, FALSE, FALSE>>,
                                val |-> made.predictor, raised |-> ""]
                          ELSE ret
        /\ UNCHANGED <<predictorVars, storeVars, registryVars, monitorVars>>

\* get_lstm_predictor from the end of the training on: the checkpoint is on
\* disk, and when train_lstm_model returned its predictor is assigned to
\* _model_cache[coin_id]
get_lstm_predictor_end(t, train_ok, partial) ==
    LET coin_id == threads[t].coin_id
        made == TrainLstmModel(model_files, threads[t].id, coin_id, TRUE,
                               FALSE, train_ok, partial)
    IN  /\ threads[t].pc = "training"
        /\ model_files' = made.files
        /\ ml_log' = ml_log \o made.runs
        /\ model_cache' = IF made.raised = ""
                           THEN SetItem(model_cache, coin_id, made.predictor)
                           ELSE model_cache
        /\ threads' = [threads EXCEPT ![t] = Idle]
        /\ ret' = [op |-> "get_lstm_predictor",
                   arg |-> <<coin_id, FALSE, train_ok, partial>>,
                   val |-> made.predictor, raised |-> made.raised]
        /\ UNCHANGED <<predictorVars, objects, storeVars, registryVars,
                       monitorVars>>


\* the versions asked for: those register_model can have stored, and one more
VersionInputs == {FormatVersion(1, 0, k) : k \in 0..MaxRegs}

Rollback ==
    \E v \in VersionInputs, sqlite_error \in BOOLEAN :
        rollback_to_version(v, sqlite_error)

GetModelVersionsCall ==
    \E c \in Coins \cup {""}, sqlite_error \in BOOLEAN :
        registry_read("get_model_versions", c, <<>>, sqlite_error)

GetLatestVersionCall ==
    \E c \in Coins, sqlite_error \in BOOLEAN :
        registry_read("get_latest_version", c, <<>>, sqlite_error)

GetModelByVersionCall ==
    \E v \in VersionInputs, sqlite_error \in BOOLEAN :
        registry_read("get_model_by_version", "", v, sqlite_error)

GetRollbackCandidatesCall ==
    \E c \in Coins, v \in VersionInputs, sqlite_error \in BOOLEAN :
        registry_read("get_rollback_candidates", c, v, sqlite_error)

\* a dict with both fields, a number for price and an ISO timestamp
WellFormed(ts, p) ==
    [keys |-> {"price", "timestamp"}, timestamp_type |-> "iso",
     price_type |-> "number", price |-> p, timestamp |-> ts, source |-> "pyth"]

Record ==
    \E c \in Coins, ts \in Timestamps, p \in PriceInputs :
        insert_price_data(c, WellFormed(ts, p), FALSE)

\* dicts that lack a field, carry a price that is no number ('abc', None)
\* or a timestamp that is no ISO string ('garbage', None, 12345)
Malformed ==
    {[WellFormed(1, 100) EXCEPT !.keys = {"price"}, !.timestamp = 0,
                                !.timestamp_type = "missing"],
     [WellFormed(1, 100) EXCEPT !.keys = {"timestamp"}, !.price = NULL,
                                !.price_type = "missing"],
     [WellFormed(1, 100) EXCEPT !.price = NULL, !.price_type = "text"],
     [WellFormed(1, 100) EXCEPT !.timestamp = 0, !.timestamp_type = "text"],
     WellFormed(1, 0 - 5)}

RecordMalformed ==
    \E c \in Coins, price_data \in Malformed, sqlite_error \in BOOLEAN :
        insert_price_data(c, price_data, sqlite_error)

RecordStorageError ==
    \E c \in Coins, ts \in Timestamps :
        insert_price_data(c, WellFormed(ts, 100), TRUE)

GetLatestPriceCall ==
    \E c \in Coins, sqlite_error \in BOOLEAN : get_latest_price(c, sqlite_error)

\* the clock readings tried: one before the store's later timestamps, one
\* more than a day after its earlier ones
NowInputs == {MaxTs - 1, Day + MaxTs - 1}

GetHistoricalPricesCall ==
    \E c \in Coins, days \in {1, 2}, now \in NowInputs, sqlite_error \in BOOLEAN :
        get_historical_prices(c, days, now, sqlite_error)

\* a row the predictions table held before this process opened it, with its
\* actual price filled in (CREATE TABLE IF NOT EXISTS keeps existing rows)
ReconciledRow(coin_id, predicted_price, made) ==
    [coin_id |-> coin_id, model_version |-> FormatVersion(1, 0, 0),
     prediction_date |-> 3, predicted_price |-> predicted_price,
     actual_price |-> 100, prediction_timestamp |-> made]

InitTables(preds) ==
    /\ price_history = {}
    /\ model_registry = <<>>
    /\ register_log = <<>>
    /\ clock = 0
    /\ predictions = preds
    /\ performance_metrics = {}
    /\ today = 30
    /\ model_cache = <<>>
    /\ model_files = {}
    /\ objects = 0
    /\ ml_log = <<>>
    /\ metadata_files = {}
    /\ predictor = NewPredictor("btc")
    /\ threads = [t \in Threads |-> Idle]
    /\ ret = NoCall

Init ==
    \E preds \in {<<>>, <<ReconciledRow("btc", 110, 30)>>} : InitTables(preds)

Next ==
    \/ Record
    \/ StorePrediction
    \/ update_actual_prices

Spec == Init /\ [][Next]_vars

\* what the live feed does for one coin
FeedOutcomes ==
    {[current_price |-> 100, status |-> "price"],
     [current_price |-> 0, status |-> "price"],
     [current_price |-> 0, status |-> "absent"],
     [current_price |-> 0, status |-> "APIError"]}

\* the coin_ids lists passed: each coin at most once
CoinLists == {<<"btc">>, <<"eth">>, <<"btc", "eth">>, <<"eth", "btc">>}

\* datetime.now() as the backfills read it
EndDate == MaxDays * Day + 1

Backfill ==
    \E coin_ids \in CoinLists, days \in 1..MaxDays, feed \in [Coins -> FeedOutcomes],
       stream \in Streams :
        backfill_historical_data(coin_ids, days, EndDate, feed, stream)

\* the store a backfill is run on: empty, or holding one live observation
\* taken at the time the backfill ends
InitBackfill ==
    /\ price_history \in {{}, {PriceRow("btc", WellFormed(EndDate, 100))}}
    /\ model_registry = <<>>
    /\ register_log = <<>>
    /\ clock = 0
    /\ predictions = <<>>
    /\ performance_metrics = {}
    /\ today = 30
    /\ model_cache = <<>>
    /\ model_files = {}
    /\ objects = 0
    /\ ml_log = <<>>
    /\ metadata_files = {}
    /\ predictor = NewPredictor("btc")
    /\ threads = [t \in Threads |-> Idle]
    /\ ret = NoCall

NextBackfill == Backfill

SpecBackfill == InitBackfill /\ [][NextBackfill]_vars

\* a new process: the cache is empty; the models directory is empty or
\* holds a model file an earlier process wrote
InitCache ==
    /\ price_history = {}
    /\ model_registry = <<>>
    /\ register_log = <<>>
    /\ clock = 0
    /\ predictions = <<>>
    /\ performance_metrics = {}
    /\ today = 30
    /\ model_cache = <<>>
    /\ model_files \in {{}, {[coin_id |-> "btc", mtime |-> 0]},
                         {[coin_id |-> "btc", mtime |-> 0],
                          [coin_id |-> "eth", mtime |-> 0]}}
    /\ objects = 0
    /\ ml_log = <<>>
    /\ metadata_files = {}
    /\ predictor = NewPredictor("btc")
    /\ threads = [t \in Threads |-> Idle]
    /\ ret = NoCall

NextCache == GetLstmPredictor

SpecCache == InitCache /\ [][NextCache]_vars

InitStore == InitTables(<<>>)

NextStore ==
    \/ Record
    \/ RecordMalformed
    \/ RecordStorageError
    \/ GetLatestPriceCall
    \/ GetHistoricalPricesCall

SpecStore == InitStore /\ [][NextStore]_vars

InitRegistry == InitTables(<<>>)

NextRegistry ==
    \/ Register
    \/ Rollback
    \/ GetModelVersionsCall
    \/ GetLatestVersionCall
    \/ GetModelByVersionCall
    \/ GetRollbackCandidatesCall

SpecRegistry == InitRegistry /\ [][NextRegistry]_vars

\* the tables of reconciled predictions the health checks are run on: n rows
\* made today with predictions off by e percent, m rows made 10 days ago
\* with predictions off by f percent
SeedSizes == {0, 4, 5, 9, 10}
SeedErrors == {0, 8, 12, 18, 30}
OlderSizes == {0, 5}

SeedTable(n, e, m, f) ==
    [i \in 1..(n + m) |->
        IF i <= n THEN ReconciledRow("btc", 100 + e, today)
        ELSE ReconciledRow("btc", 100 + f, today - 10)]

\* a snapshot the performance_metrics table held before this process opened
\* it: today's 7-day snapshot of the seeded model
SeedSnapshot ==
    [coin_id |-> "btc", mape |-> [num |-> 40, den |-> 5],
     model_version |-> FormatVersion(1, 0, 0), sample_size |-> 5,
     metric_date |-> 30, period_days |-> RecentDays]

InitHealth ==
    /\ price_history = {}
    /\ model_registry = <<>>
    /\ register_log = <<>>
    /\ clock = 0
    /\ performance_metrics \in {{}, {SeedSnapshot}}
    /\ today = 30
    /\ model_cache = <<>>
    /\ model_files = {}
    /\ objects = 0
    /\ ml_log = <<>>
    /\ metadata_files = {}
    /\ predictor = NewPredictor("btc")
    /\ threads = [t \in Threads |-> Idle]
    /\ ret = NoCall
    /\ \E n \in SeedSizes, e \in SeedErrors, m \in OlderSizes, f \in SeedErrors :
          predictions = SeedTable(n, e, m, f)

NextHealth ==
    \/ CalculateMetricsCall
    \/ DetectDegradationCall
    \/ ShouldRetrainCall
    \/ HealthScoreCall

SpecHealth == InitHealth /\ [][NextHealth]_vars

(***************************************************************************)
(* One LSTMPredictor object and the models directory                       *)
(***************************************************************************)

PreprocessDataCall == \E days \in {ContextDays, LoadDays} : preprocess_data(days)

TrainModelCall == \E stage \in TrainStages : train_model(stage)

SaveMetadata == \E name \in {"default", "matching"} : save_metadata(name)

\* json.load is reached only when keras has loaded the weights
LoadOutcomes == {<<FALSE, TRUE>>, <<TRUE, FALSE>>, <<TRUE, TRUE>>}

LoadModelCall ==
    \E f \in model_files, o \in LoadOutcomes : load_model(f.mtime, o[1], o[2])

\* the horizons asked for
Horizons == {0, 1, 2, 3, ForecastDays}

\* the answers of the network tried: every sequence for a short horizon,
\* and for a longer one a flat, an alternating and a stepping sequence
OutputsFor(h) ==
    IF h <= 3 THEN [1..h -> NetOutputs]
    ELSE {[i \in 1..h |-> 0], [i \in 1..h |-> i % 2],
          [i \in 1..h |-> IF i = h THEN 1 ELSE 0]}

PredictFutureCall ==
    \E h \in Horizons : \E outputs \in OutputsFor(h) : predict_future(h, outputs)

\* predictor.predict_future(): the default horizon
PredictDefault ==
    \E outputs \in {[i \in 1..ForecastDays |-> i % 2]} :
        predict_future(ForecastDays, outputs)

\* one observation of btc a day, from first to last
PriceSeries(first, last) ==
    {PriceRow("btc", WellFormed(d * Day, IF d % 2 = 0 THEN 10 ELSE 20)) :
        d \in first..last}

\* a price store of 37 daily observations inside the last 60 days and an
\* older, lower one inside the last 90; and one of one observation too few
FullStore == PriceSeries(64, 100) \cup {PriceRow("btc", WellFormed(20 * Day, 5))}

PriceStores == {FullStore, PriceSeries(65, 100)}

InitObject(stores, objs) ==
    /\ price_history \in stores
    /\ model_registry = <<>>
    /\ register_log = <<>>
    /\ clock = 0
    /\ predictions = <<>>
    /\ performance_metrics = {}
    /\ today = 30
    /\ model_cache = <<>>
    /\ model_files = {}
    /\ objects = 0
    /\ ml_log = <<>>
    /\ metadata_files = {}
    /\ predictor \in objs
    /\ threads = [t \in Threads |-> Idle]
    /\ ret = NoCall

InitPredictor == InitObject({FullStore}, {NewPredictor("btc")})

NextPredictor ==
    \/ PreprocessDataCall
    \/ TrainModelCall
    \/ SaveMetadata
    \/ LoadModelCall
    \/ PredictDefault

SpecPredictor == InitPredictor /\ [][NextPredictor]_vars

\* the objects forecasts are asked of: one never trained; the one
\* train_lstm_model returns after a training, its scaler fitted to the 90
\* days loaded; one that loaded the weights of that training and no
\* parameters; and one whose training raised in fit
HandedOut(store) ==
    LET loaded == LoadData(store, "btc", LoadDays, NowTick)
        fresh == NewPredictor("btc")
        ready == PreprocessData(fresh, loaded.df)
    IN  IF loaded.raised # "" THEN {fresh}
        ELSE {fresh, TrainModel(ready, "ok", 1), TrainModel(ready, "fit", 1),
              LoadModel(fresh, {}, 1, TRUE, TRUE).predictor}

InitForecast ==
    \E store \in PriceStores : InitObject({store}, HandedOut(store))

NextForecast == PredictFutureCall

SpecForecast == InitForecast /\ [][NextForecast]_vars

(***************************************************************************)
(* get_lstm_predictor and retraining, with a registry                      *)
(***************************************************************************)

\* get_lstm_predictor and a retrain, of the one asset
GetOrTrain ==
    \E load_ok \in BOOLEAN, o \in Outcomes :
        get_lstm_predictor("btc", load_ok, o[1], o[2])

Retrain == \E o \in Outcomes : train_lstm_model("btc", TRUE, FALSE, o[1], o[2])

\* the registry row of a model of btc registered before
SeedRegistryRow ==
    [coin_id |-> "btc", version |-> FormatVersion(1, 0, 0), created_at |-> 1,
     model_path |-> "models/a.h5", mape |-> 5]

InitTrain ==
    /\ price_history = {}
    /\ model_registry = <<SeedRegistryRow>>
    /\ register_log = <<[val |-> [version |-> FormatVersion(1, 0, 0), ok |-> TRUE],
                         coin_id |-> "btc"]>>
    /\ clock = 1
    /\ predictions = <<>>
    /\ performance_metrics = {}
    /\ today = 30
    /\ model_cache = <<>>
    /\ model_files \in {{}, {[coin_id |-> "btc", mtime |-> 0]}}
    /\ objects = 0
    /\ ml_log = <<>>
    /\ metadata_files = {}
    /\ predictor = NewPredictor("btc")
    /\ threads = [t \in Threads |-> Idle]
    /\ ret = NoCall

NextTrain ==
    \/ GetOrTrain
    \/ Retrain

SpecTrain == InitTrain /\ [][NextTrain]_vars

(***************************************************************************)
(* Two sessions at once                                                    *)
(***************************************************************************)

RegisterRead ==
    \E t \in Threads, c \in Coins, path \in ModelPaths, mape \in {5, 20} :
        register_read(t, c, path, mape)

RegisterInsert == \E t \in Threads : register_insert(t)

NextRaceRegistry ==
    \/ RegisterRead
    \/ RegisterInsert

SpecRaceRegistry == InitRegistry /\ [][NextRaceRegistry]_vars

GetLstmPredictorBegin ==
    \E t \in Threads, load_ok \in BOOLEAN :
        get_lstm_predictor_begin(t, "btc", load_ok)

GetLstmPredictorEnd ==
    \E t \in Threads, o \in Outcomes : get_lstm_predictor_end(t, o[1], o[2])

NextRaceCache ==
    \/ GetLstmPredictorBegin
    \/ GetLstmPredictorEnd

SpecRaceCache == InitCache /\ [][NextRaceCache]_vars

(***************************************************************************)
(* Price store properties                                                  *)
(***************************************************************************)

\* the 1-minute bucket a timestamp falls in
Bucket(ts) == ts \div Minute

\* C1: the price store holds at most one observation per
\* (asset_id, 1-minute bucket), whatever the order of arrival.
C1_OnePerBucket ==
    \A r1, r2 \in price_history :
        (r1.coin_id = r2.coin_id /\ Bucket(r1.timestamp) = Bucket(r2.timestamp))
            => r1 = r2

\* an observation the specification calls invalid: a field is missing, the
\* price is no number or not positive, or the timestamp does not parse
Invalid(price_data) ==
    \/ "timestamp" \notin price_data.keys
    \/ "price" \notin price_data.keys
    \/ price_data.price_type # "number"
    \/ price_data.price <= 0
    \/ price_data.timestamp_type # "iso"

\* C15: insert_price_data returns false without raising and leaves the
\* store unchanged whenever the observation lacks a timestamp or a price,
\* its price is no number or is <= 0, or its timestamp does not parse; and
\* every stored observation has price > 0.
C15_InvalidRejected ==
    [][/\ (ret'.op = "insert_price_data" /\ Invalid(ret'.arg[2])) =>
             /\ ret'.val = FALSE
             /\ ret'.raised = ""
             /\ price_history' = price_history
       /\ \A r \in price_history' : r.price > 0]_vars

\* a price that is no number was offered to a store that holds observations
C15_Witness ==
    /\ ret.op = "insert_price_data"
    /\ ret.arg[2].price_type = "text"
    /\ ~ret.arg[3]
    /\ price_history # {}

\* the call was insert_price_data of a valid observation on working storage
ValidRecord ==
    /\ ret.op = "insert_price_data"
    /\ ~Invalid(ret.arg[2])
    /\ ~ret.arg[3]

\* C16 as stated: for a valid observation, insert_price_data followed
\* immediately by get_latest_price of the same asset returns that
\* observation, or a later one of the same 1-minute bucket when the insert
\* was rejected as a duplicate.
C16_RecordThenLatest ==
    ValidRecord =>
        LET latest == GetLatestPrice(price_history, ret.arg[1], FALSE)
        IN  /\ "row" \in latest.keys
            /\ IF ret.val
               THEN latest.row = PriceDict(PriceRow(ret.arg[1], ret.arg[2]))
               ELSE /\ latest.row.timestamp >= ret.arg[2].timestamp
                    /\ Bucket(latest.row.timestamp) = Bucket(ret.arg[2].timestamp)

\* C16, amended: for a valid observation, insert_price_data followed
\* immediately by get_latest_price of the same asset returns the
\* observation of that asset with the greatest timestamp, which is never
\* earlier than the recorded one, and is the recorded observation itself
\* when it was inserted and the store holds no later one of the asset.
C16_LatestNotEarlier ==
    ValidRecord =>
        LET latest == GetLatestPrice(price_history, ret.arg[1], FALSE)
        IN  /\ "row" \in latest.keys
            /\ latest.row.timestamp >= ret.arg[2].timestamp
            /\ \A r \in RowsOfCoin(price_history, ret.arg[1]) :
                  r.timestamp <= latest.row.timestamp
            /\ (/\ ret.val
                /\ \A r \in RowsOfCoin(price_history, ret.arg[1]) :
                      r.timestamp <= ret.arg[2].timestamp)
                  => latest.row = PriceDict(PriceRow(ret.arg[1], ret.arg[2]))

\* an observation was inserted while the store held a later one of the asset
C16_Witness ==
    /\ ValidRecord
    /\ ret.val
    /\ \E r \in RowsOfCoin(price_history, ret.arg[1]) :
          r.timestamp > ret.arg[2].timestamp

\* C17: when the storage fails during insert_price_data of a valid
\* observation, the caller gets a storage error, not the false that
\* validation failures and duplicates return.
C17_StorageErrorSurfaced ==
    (/\ ret.op = "insert_price_data"
     /\ ~Invalid(ret.arg[2])
     /\ ret.arg[3])
        => ret.raised = "DatabaseError"

\* C18: get_historical_prices(asset, days) returns exactly the stored
\* observations of the asset with timestamp in [now - days, now], in
\* ascending timestamp order.
C18_HistoryWindow ==
    (ret.op = "get_historical_prices" /\ ~ret.arg[4]) =>
        LET expected == {r \in RowsOfCoin(price_history, ret.arg[1]) :
                            /\ r.timestamp >= ret.arg[3] - ret.arg[2] * Day
                            /\ r.timestamp <= ret.arg[3]}
        IN  /\ Len(ret.val) = Cardinality(expected)
            /\ {ret.val[i] : i \in DOMAIN ret.val} = {PriceDict(r) : r \in expected}
            /\ \A i, j \in DOMAIN ret.val :
                  i < j => ret.val[i].timestamp < ret.val[j].timestamp

\* the 4-hour steps from end_date - days to end_date
Steps(end_date, days) ==
    {end_date - days * Day + k * FourHours : k \in 0..(6 * days)}

ClosestPrices(coin_id, pred_date) ==
    {r.price : r \in {r \in ActualData(coin_id, pred_date) :
        \A q \in ActualData(coin_id, pred_date) :
            Abs(r.timestamp - pred_date) <= Abs(q.timestamp - pred_date)}}

HasMatch(i) ==
    ActualData(predictions[i].coin_id, predictions[i].prediction_date) # {}

UpdateStep == ret'.op = "update_actual_prices"

\* C4: after update_actual_prices runs, every prediction that had
\* actual_price unset and has an observation of its asset within one hour
\* of its target date carries the price of the closest observation.
C4_ReconcileFills ==
    [][UpdateStep =>
        \A i \in DOMAIN predictions :
            (predictions[i].actual_price = NULL /\ HasMatch(i)) =>
                predictions'[i].actual_price \in
                    ClosestPrices(predictions[i].coin_id,
                                  predictions[i].prediction_date)]_vars

\* C5: update_actual_prices leaves a prediction without a matching
\* observation unset, run twice in a row changes nothing the second time,
\* and fills a prediction as soon as a matching observation is in the store.
C5_IdempotentRetry ==
    [][UpdateStep =>
        /\ \A i \in DOMAIN predictions :
              (predictions[i].actual_price = NULL /\ ~HasMatch(i)) =>
                  predictions'[i].actual_price = NULL
        /\ ret.op = "update_actual_prices" => predictions' = predictions
        /\ \A i \in DOMAIN predictions :
              (predictions[i].actual_price = NULL /\ HasMatch(i)) =>
                  predictions'[i].actual_price # NULL]_vars

\* C6: a prediction is created with actual_price unset; its actual_price,
\* once set, never changes; its other fields never change; and no
\* prediction is ever deleted.
C6_WrittenAtMostOnce ==
    [][/\ Len(predictions') >= Len(predictions)
       /\ \A i \in DOMAIN predictions :
             /\ predictions'[i].model_version = predictions[i].model_version
             /\ predictions'[i].coin_id = predictions[i].coin_id
             /\ predictions'[i].prediction_date = predictions[i].prediction_date
             /\ predictions'[i].predicted_price = predictions[i].predicted_price
             /\ predictions'[i].prediction_timestamp = predictions[i].prediction_timestamp
             /\ predictions[i].actual_price # NULL =>
                   predictions'[i].actual_price = predictions[i].actual_price
       /\ \A i \in DOMAIN predictions' \ DOMAIN predictions :
             predictions'[i].actual_price = NULL]_vars

C6_Witness ==
    /\ ret.op = "update_actual_prices"
    /\ \E i \in DOMAIN predictions : predictions[i].actual_price # NULL
    /\ \E i \in DOMAIN predictions :
          predictions[i].actual_price = NULL /\ HasMatch(i)

(***************************************************************************)
(* Health properties.  The reconciled samples of a window and their MAPE   *)
(* are taken from the predictions table itself.                            *)
(***************************************************************************)

SeedTables ==
    {SeedTable(n, e, m, f) :
        n \in SeedSizes, e \in SeedErrors, m \in OlderSizes, f \in SeedErrors}

SampleSize(preds, v, c, days) == Cardinality(MetricRows(preds, v, c, days))

WindowMape(preds, v, c, days) ==
    IF MetricRows(preds, v, c, days) = {} THEN ZeroMape
    ELSE MapeOf(preds, MetricRows(preds, v, c, days))

MapeLeq(a, b) == a.num * b.den <= b.num * a.den

\* degraded as the specification defines it: at least 5 reconciled samples
\* in the 7-day window and (7-day MAPE > threshold or 7-day / 30-day > 1.5)
Degraded(preds, v, c, threshold) ==
    /\ SampleSize(preds, v, c, RecentDays) >= MinSamples
    /\ \/ MapeAbove(WindowMape(preds, v, c, RecentDays), threshold)
       \/ /\ WindowMape(preds, v, c, BaselineDays).num # 0
          /\ RatioAbove(WindowMape(preds, v, c, RecentDays),
                        WindowMape(preds, v, c, BaselineDays))

\* the deduction schedule of the specification
ScheduledScore(preds, v, c) ==
    LET n == SampleSize(preds, v, c, RecentDays)
        mape == WindowMape(preds, v, c, RecentDays)
        d1 == IF Degraded(preds, v, c, DefaultThreshold) THEN 30 ELSE 0
        d2 == IF MapeAbove(mape, 20) THEN 20
              ELSE IF MapeAbove(mape, 10) THEN 10 ELSE 0
        d3 == IF n < 5 THEN 30 ELSE IF n < 10 THEN 15 ELSE 0
    IN  Max(0, Min(100, 100 - d1 - d2 - d3))

\* C7: get_model_health_score is 100 minus 30 if degraded, minus 20 if the
\* 7-day MAPE is above 20 else 10 if above 10, minus 30 if the 7-day sample
\* size is below 5 else 15 if below 10, clamped to [0,100].
C7_DeductionSchedule ==
    ret.op = "get_model_health_score" =>
        ret.val = ScheduledScore(predictions, ret.arg[1], ret.arg[2])

\* C8: the health score lies in [0,100], and a table with the same sample
\* sizes and the same 30-day MAPE but a higher 7-day MAPE never scores higher.
C8_RangeAndMonotone ==
    ret.op = "get_model_health_score" =>
        LET v == ret.arg[1]
            c == ret.arg[2]
        IN  /\ ret.val \in 0..100
            /\ \A t \in SeedTables :
                  (/\ SampleSize(t, v, c, RecentDays) = SampleSize(predictions, v, c, RecentDays)
                   /\ SampleSize(t, v, c, BaselineDays) = SampleSize(predictions, v, c, BaselineDays)
                   /\ MapeLeq(WindowMape(t, v, c, BaselineDays), WindowMape(predictions, v, c, BaselineDays))
                   /\ MapeLeq(WindowMape(predictions, v, c, BaselineDays), WindowMape(t, v, c, BaselineDays))
                   /\ MapeLeq(WindowMape(predictions, v, c, RecentDays), WindowMape(t, v, c, RecentDays)))
                    => HealthScore(t, v, c) <= ret.val

\* the score was taken on a table with enough samples, and another table
\* differs from it in nothing but a strictly higher 7-day MAPE
C8_Witness ==
    /\ ret.op = "get_model_health_score"
    /\ SampleSize(predictions, ret.arg[1], ret.arg[2], RecentDays) >= MinSamples
    /\ \E t \in SeedTables :
          /\ SampleSize(t, ret.arg[1], ret.arg[2], RecentDays)
                = SampleSize(predictions, ret.arg[1], ret.arg[2], RecentDays)
          /\ SampleSize(t, ret.arg[1], ret.arg[2], BaselineDays)
                = SampleSize(predictions, ret.arg[1], ret.arg[2], BaselineDays)
          /\ MapeLeq(WindowMape(t, ret.arg[1], ret.arg[2], BaselineDays),
                     WindowMape(predictions, ret.arg[1], ret.arg[2], BaselineDays))
          /\ MapeLeq(WindowMape(predictions, ret.arg[1], ret.arg[2], BaselineDays),
                     WindowMape(t, ret.arg[1], ret.arg[2], BaselineDays))
          /\ ~MapeLeq(WindowMape(t, ret.arg[1], ret.arg[2], RecentDays),
                      WindowMape(predictions, ret.arg[1], ret.arg[2], RecentDays))

\* C9: detect_performance_degradation reports degraded exactly when the
\* 7-day window holds at least 5 reconciled samples and (7-day MAPE >
\* threshold or 7-day / 30-day MAPE > 1.5); with fewer than 5 samples it
\* reports insufficient data and not degraded.
C9_DegradedExactlyWhen ==
    ret.op = "detect_performance_degradation" =>
        /\ ret.val.degraded = Degraded(predictions, ret.arg[1], ret.arg[2], ret.arg[3])
        /\ SampleSize(predictions, ret.arg[1], ret.arg[2], RecentDays) < MinSamples
              => (~ret.val.degraded /\ ret.val.reason = "Insufficient data")

\* C10: should_retrain_model returns true if the 7-day MAPE exceeds the
\* threshold or the degradation check flags degradation, otherwise false
\* with the current MAPE reported; with fewer than 5 recent reconciled
\* samples it returns false.
C10_RetrainDecision ==
    ret.op = "should_retrain_model" =>
        LET v == ret.arg[1]
            c == ret.arg[2]
            n == SampleSize(predictions, v, c, RecentDays)
            mape == WindowMape(predictions, v, c, RecentDays)
            flagged == DetectDegradation(predictions, v, c, DefaultThreshold).degraded
        IN  /\ n < MinSamples => ~ret.val.should_retrain
            /\ n >= MinSamples =>
                  ret.val.should_retrain = (MapeAbove(mape, ret.arg[3]) \/ flagged)
            /\ (n >= MinSamples /\ ~ret.val.should_retrain) =>
                  /\ "current_mape" \in ret.val.keys
                  /\ MapeLeq(mape, ret.val.current_mape)
                  /\ MapeLeq(ret.val.current_mape, mape)

\* the snapshot rows of one key (version, asset, date, window)
SnapshotsOf(pm, v, c, date, days) ==
    {r \in pm : /\ r.model_version = v
                /\ r.coin_id = c
                /\ r.metric_date = date
                /\ r.period_days = days}

\* C11: calculate_metrics for a (version, asset, window) with no reconciled
\* prediction in the window returns exactly {sample_size: 0} and leaves the
\* performance snapshots as they were: no row written, none replaced.
C11_NoSamplesNoSnapshot ==
    [][(/\ ret'.op = "calculate_metrics"
        /\ SampleSize(predictions, ret'.arg[1], ret'.arg[2], ret'.arg[3]) = 0)
        => /\ ret'.val.keys = {"sample_size"}
           /\ ret'.val.sample_size = 0
           /\ performance_metrics' = performance_metrics]_vars

\* metrics were asked for a key that has a stored snapshot and no sample
C11_Witness ==
    /\ ret.op = "calculate_metrics"
    /\ SampleSize(predictions, ret.arg[1], ret.arg[2], ret.arg[3]) = 0
    /\ SnapshotsOf(performance_metrics, ret.arg[1], ret.arg[2], today, ret.arg[3]) # {}

\* C12: the snapshots never hold two rows of one key; calculate_metrics
\* finding n >= 1 reconciled predictions returns sample_size = n and leaves
\* exactly one row of (version, asset, today, window), carrying the new
\* values, with the rows of every other key untouched.
C12_OneSnapshotPerKey ==
    [][ret'.op = "calculate_metrics" =>
        LET v == ret'.arg[1]
            c == ret'.arg[2]
            days == ret'.arg[3]
            n == SampleSize(predictions, v, c, days)
            mine == SnapshotsOf(performance_metrics', v, c, today, days)
        IN  /\ \A r \in performance_metrics' :
                  SnapshotsOf(performance_metrics', r.model_version, r.coin_id,
                              r.metric_date, r.period_days) = {r}
            /\ n >= 1 =>
                  /\ "sample_size" \in ret'.val.keys
                  /\ ret'.val.sample_size = n
                  /\ Cardinality(mine) = 1
                  /\ \A r \in mine :
                        /\ r.sample_size = n
                        /\ MapeLeq(r.mape, WindowMape(predictions, v, c, days))
                        /\ MapeLeq(WindowMape(predictions, v, c, days), r.mape)
                  /\ performance_metrics' \ mine
                        = performance_metrics
                            \ SnapshotsOf(performance_metrics, v, c, today, days)]_vars

(***************************************************************************)
(* Registry properties                                                     *)
(***************************************************************************)

\* a version string is lower than another: by major, minor, patch
VersionLess(v, w) ==
    LET a == ParseVersion(v)
        b == ParseVersion(w)
    IN  \/ a[1] < b[1]
        \/ a[1] = b[1] /\ a[2] < b[2]
        \/ a[1] = b[1] /\ a[2] = b[2] /\ a[3] < b[3]

\* every register_model call so far was for the one coin
OnlyCoin(c) == \A k \in DOMAIN register_log : register_log[k].coin_id = c

\* C2: register_model called N times in sequence for the same asset returns
\* v1.0.0, v1.0.1, ..., v1.0.(N-1) in that order, every call succeeding.
C2_SequentialVersions ==
    \A c \in Coins :
        OnlyCoin(c) =>
            \A k \in DOMAIN register_log :
                /\ register_log[k].val.ok
                /\ register_log[k].val.version = FormatVersion(1, 0, k - 1)

C2_Witness ==
    /\ Len(register_log) >= 3
    /\ OnlyCoin("eth")
    /\ ret.op = "register_model"

\* C3: no two registry rows carry the same version string; of two rows of
\* one asset the one created earlier has the strictly lower version; and a
\* version register_model returns is higher than every version stored
\* before for that asset.
C3_UniqueOrdered ==
    /\ \A i, j \in DOMAIN model_registry :
          i # j => model_registry[i].version # model_registry[j].version
    /\ \A i, j \in DOMAIN model_registry :
          (/\ model_registry[i].coin_id = model_registry[j].coin_id
           /\ model_registry[i].created_at < model_registry[j].created_at)
            => VersionLess(model_registry[i].version, model_registry[j].version)
    /\ (ret.op = "register_model" /\ ret.val.ok) =>
          \A i \in RowsOf(ret.arg[1]) \ {Len(model_registry)} :
              VersionLess(model_registry[i].version, ret.val.version)

C3_Witness ==
    /\ Cardinality(RowsOf("btc")) >= 2
    /\ \E k \in DOMAIN register_log :
          register_log[k].coin_id = "eth" /\ ~register_log[k].val.ok
    /\ ret.op = "register_model" /\ ret.val.ok

\* C13: rollback_to_version to a version the registry holds returns success
\* with the row of that version; to a version it does not hold it returns
\* success = false with an error; and it never raises to the caller.
C13_RollbackResult ==
    ret.op = "rollback_to_version" =>
        /\ ret.val.raised = ""
        /\ \A i \in DOMAIN model_registry :
              model_registry[i].version = ret.arg[1] =>
                  /\ ret.val.success
                  /\ "model" \in ret.val.keys
                  /\ ret.val.model = model_registry[i]
        /\ (\A i \in DOMAIN model_registry :
                model_registry[i].version # ret.arg[1]) =>
                  /\ ~ret.val.success
                  /\ "error" \in ret.val.keys

\* C14: no registry operation changes or deletes a stored row;
\* rollback_to_version leaves the whole registry as it was, and
\* get_latest_version answers the same for every asset before and after it.
C14_RowsImmutable ==
    [][/\ Len(model_registry') >= Len(model_registry)
       /\ \A i \in DOMAIN model_registry : model_registry'[i] = model_registry[i]
       /\ ret'.op = "rollback_to_version" =>
             /\ model_registry' = model_registry
             /\ \A c \in Coins : GetLatestVersion(c)' = GetLatestVersion(c)]_vars

\* a rollback to the older of two stored versions of one asset was made
C14_Witness ==
    /\ ret.op = "rollback_to_version"
    /\ ret.val.raised = ""
    /\ ret.val.success
    /\ \E i \in DOMAIN model_registry :
          /\ model_registry[i].coin_id = ret.val.model.coin_id
          /\ model_registry[i].created_at > ret.val.model.created_at

(***************************************************************************)
(* Predictor cache properties                                              *)
(***************************************************************************)

\* the runs of a log that succeeded
Succeeded(log) == {k \in DOMAIN log : log[k].ok}

\* C20: in sequential use get_lstm_predictor holds at most one predictor per
\* asset: a call for an asset not yet cached that returns has loaded or
\* trained exactly once with success and stored that result; every later
\* call for the asset returns the same cached object without a load or a
\* training; and a call for one asset never changes the entry of another.
C20_OnePredictorPerAsset ==
    [][ret'.op = "get_lstm_predictor" =>
        LET c == ret'.arg[1]
        IN  /\ \A d \in Coins \ {c} :
                  /\ (d \in DOMAIN model_cache') = (d \in DOMAIN model_cache)
                  /\ d \in DOMAIN model_cache => model_cache'[d] = model_cache[d]
            /\ c \in DOMAIN model_cache =>
                  /\ ret'.raised = ""
                  /\ ret'.val = model_cache[c]
                  /\ model_cache' = model_cache
                  /\ ml_log' = ml_log
                  /\ model_files' = model_files
            /\ (c \notin DOMAIN model_cache /\ ret'.raised = "") =>
                  /\ c \in DOMAIN model_cache'
                  /\ model_cache'[c] = ret'.val
                  /\ ret'.val.coin_id = c
                  /\ Cardinality(Succeeded(ml_log')) = Cardinality(Succeeded(ml_log)) + 1
                  /\ \A k \in DOMAIN ml_log' \ DOMAIN ml_log : ml_log'[k].coin_id = c
                  /\ \A e \in DOMAIN model_cache' \ {c} :
                        model_cache'[e].id # ret'.val.id]_vars

\* both assets are cached and the last call was answered from the cache:
\* it returned although neither a load nor a training could have succeeded
C20_Witness ==
    /\ ret.op = "get_lstm_predictor"
    /\ ~ret.arg[2] /\ ~ret.arg[3]
    /\ ret.raised = ""
    /\ DOMAIN model_cache = Coins
    /\ \E k \in DOMAIN ml_log : ml_log[k].run = "load_model" /\ ml_log[k].ok
    /\ \E k \in DOMAIN ml_log : ml_log[k].run = "train_model" /\ ml_log[k].ok

(***************************************************************************)
(* Concurrency properties                                                  *)
(***************************************************************************)

\* the threads that are training a model of the asset
Training(c) == {t \in InFlight("training") : threads[t].coin_id = c}

\* C21: for any interleaving of concurrent get_lstm_predictor requests for
\* one asset, at most one training run of that asset is in progress at any
\* time.
C21_OneTrainingPerAsset == \A c \in Coins : Cardinality(Training(c)) <= 1

\* the register_model calls that have returned were all for asset c, and
\* so are the ones in progress
RegistersOnlyFor(c) ==
    /\ OnlyCoin(c)
    /\ \A t \in InFlight("register_insert") : threads[t].coin_id = c

\* C27: version bump and registry insert are one atomic step: of
\* concurrent register_model calls for one asset every call succeeds, and
\* the versions returned are distinct and consecutive.
C27_AtomicVersionBump ==
    \A c \in Coins :
        RegistersOnlyFor(c) =>
            /\ \A k \in DOMAIN register_log : register_log[k].val.ok
            /\ {register_log[k].val.version : k \in DOMAIN register_log}
                  = {FormatVersion(1, 0, n) : n \in 0..(Len(register_log) - 1)}

\* the number of register_model calls for the asset of call k, up to and
\* including call k
CallsOfAsset(k) ==
    Cardinality({j \in 1..k : register_log[j].coin_id = register_log[k].coin_id})

\* C28: the k-th register_model call of each asset succeeds and returns
\* v1.0.(k-1), whatever versions the other assets have in the registry.
C28_VersionsPerAsset ==
    \A k \in DOMAIN register_log :
        /\ register_log[k].val.ok
        /\ register_log[k].val.version = FormatVersion(1, 0, CallsOfAsset(k) - 1)

(***************************************************************************)
(* Training and retraining properties                                      *)
(***************************************************************************)

\* C22: after train_lstm_model(asset, force_retrain=True) has returned a
\* newly trained predictor, the next get_lstm_predictor for the asset
\* returns that predictor and not the one cached before.
C22_RetrainReplacesCache ==
    [][(/\ ret.op = "train_lstm_model"
        /\ ret.arg[2]
        /\ ret.raised = ""
        /\ ret'.op = "get_lstm_predictor"
        /\ ret'.arg[1] = ret.arg[1]
        /\ ret'.raised = "")
         => ret'.val.id = ret.val.id]_vars

\* C23: a get_lstm_predictor call that finds no cached predictor and no
\* model file of the asset and trains one from scratch has added exactly
\* one registry row, of that asset, when it returns.
C23_TrainingRegisters ==
    [][(/\ ret'.op = "get_lstm_predictor"
        /\ ret'.raised = ""
        /\ ret'.arg[1] \notin DOMAIN model_cache
        /\ ModelFilesOf(model_files, ret'.arg[1]) = {})
         => /\ Len(model_registry') = Len(model_registry) + 1
            /\ model_registry'[Len(model_registry')].coin_id = ret'.arg[1]]_vars

C24_TrainedOnlyAfterSuccess ==
    /\ (ret.op = "predict_future" /\ ~IsTrained(predictor))
          => (ret.raised = "ModelError" /\ ret.val.predictions = <<>>)
    /\ IsTrained(predictor) => predictor.completed

\* the timestamp of the last observation of the asset in the price store
LastObserved(coin_id) == GetLatestPrice(price_history, coin_id, FALSE).row.timestamp

FittedWith(model_path) == {f.scaler : f \in {g \in model_files : g.mtime = model_path}}

\* C29: after load_model(model_path) returned True the scaler parameters
\* of the predictor are those the weights of model_path were fitted with,
\* or there are none; they are never those of another fit.
C29_LoadedParameters ==
    (ret.op = "load_model" /\ ret.val) =>
        \/ ~predictor.scaler.fitted
        \/ predictor.scaler \in FittedWith(ret.arg[1])

(***************************************************************************)
(* Retrain threshold                                                       *)
(***************************************************************************)

====
